---- MODULE Spec2Model ----
(***************************************************************************)
(* The 'ipfs p2p' commands of core/commands/p2p.go (forward, listen, ls,   *)
(* close, stream ls, stream close) acting on the listener registry and the *)
(* stream registry of the node's P2P service.                              *)
(*                                                                         *)
(* Texts (protocol names, multiaddr option values, stream ids) are         *)
(* sequences of tokens, so that prefix tests, multiaddr parsing and number *)
(* parsing are computed and not assumed.                                   *)
(***************************************************************************)
EXTENDS Naturals, Sequences, FiniteSets, TLC

VARIABLES
    node,        \* the node's configuration read by p2pGetNode
    peerstore,   \* peer ids with a temporary address recorded (ps.AddAddr)
    Listeners,   \* n.P2P.Listeners.Listeners: the registered listeners
    alive,       \* listeners whose accept loop runs and whose resource is held
    Streams,     \* n.P2P.Streams.Streams: handle -> stream
    open,        \* handles of the streams whose two halves are open
    nextID,      \* the next stream handle of the stream registry
    res,         \* the response of the command that ran last
    call,        \* that command, its arguments and the registries it found
    run,         \* the stream close whose loop is under way, if any
    fatal,       \* the Go runtime has thrown and the process is gone
    faulty,      \* the streams and listeners whose Reset or Close reports a
                 \* transport failure
    closers,     \* the close commands that run beside one another
    lock,        \* the holder of n.P2P.Listeners' lock, 0 when it is free
    enum,        \* the ls or stream ls whose loop is under way, if any
    sessions     \* the sessions accepted so far, each with its state, its
                 \* two halves and the number of its deregistrations

\* the state of the faults, of the commands that run beside one another and
\* of the sessions followed one by one
tasks == <<faulty, closers, lock, enum, sessions>>

vars == <<node, peerstore, Listeners, alive, Streams, open, nextID, res, call,
          run, fatal, tasks>>

\* the state of the P2P service and of its node
service == <<node, peerstore, Listeners, alive, Streams, open, nextID>>

----------------------------------------------------------------------------
(* Bounds of the model *)

\* listeners registered at the same time
MaxListeners == 3

\* sessions started in one run of Spec
MaxSessions == 1

\* stream handles handed out in one run of StreamSpec
MaxHandle == 3

\* streams and listeners that fail in one run of FaultSpec
MaxFaults == 2

\* close commands that run beside one another in CloseSpec
MaxClosers == 2

\* connections accepted in one run of SessionSpec
MaxPairings == 2

----------------------------------------------------------------------------
(* Texts *)

P2PProtoPrefix == <<"/", "x", "/">>

\* strings.HasPrefix
HasPrefix(s, prefix) ==
    /\ Len(s) >= Len(prefix)
    /\ SubSeq(s, 1, Len(prefix)) = prefix

\* protocol names a caller passes
Protos == { <<"/", "x", "/", "a">>, <<"/", "y">> }

SelfID == "QmSelf"
PeerA == "QmA"

\* the component names a multiaddr may hold
NetEndpoints == {"tcp1", "tcp2"}

AddrComponents == NetEndpoints \cup {"ipfs", SelfID, PeerA}

\* multiaddr texts
TxtE1 == <<"/", "tcp1">>
TxtE2s == <<"/", "tcp2", "/">>
TxtSelf == <<"/", "ipfs", "/", SelfID>>
TxtPeerA == <<"/", "ipfs", "/", PeerA>>
TxtBad == <<"tcp1">>
TxtNone == <<>>

\* strings.TrimRight(s, "/")
RECURSIVE TrimRight(_)
TrimRight(s) ==
    IF s /= <<>> /\ s[Len(s)] = "/"
    THEN TrimRight(SubSeq(s, 1, Len(s) - 1))
    ELSE s

\* ma.NewMultiaddr: the text without its trailing slashes must be empty or
\* a run of "/" name pairs with known names; the value is the names.
NewMultiaddr(s) ==
    LET t == TrimRight(s)
        wellFormed ==
            /\ Len(t) % 2 = 0
            /\ \A i \in 1..Len(t) :
                 IF i % 2 = 1 THEN t[i] = "/" ELSE t[i] \in AddrComponents
    IN  IF wellFormed
        THEN [err |-> "", val |-> [i \in 1..(Len(t) \div 2) |-> t[2 * i]]]
        ELSE [err |-> "invalid multiaddr", val |-> <<>>]

\* Multiaddr.String
RECURSIVE AddrString(_)
AddrString(m) ==
    IF m = <<>> THEN <<>> ELSE <<"/", Head(m)>> \o AddrString(Tail(m))

\* ipfsaddr.ParseString: a multiaddr that ends in /ipfs/<peer id>
ParseIPFSAddr(s) ==
    LET m == NewMultiaddr(s)
    IN  IF m.err /= "" THEN [err |-> m.err, id |-> ""]
        ELSE IF Len(m.val) >= 2 /\ m.val[Len(m.val) - 1] = "ipfs"
        THEN [err |-> "", id |-> m.val[Len(m.val)]]
        ELSE [err |-> "invalid ipfs address", id |-> ""]

Digits == <<"0", "1", "2", "3", "4", "5", "6", "7", "8", "9">>

DigitValue(c) == CHOOSE d \in 0..9 : Digits[d + 1] = c

\* strconv.ParseUint(s, 10, 64)
RECURSIVE ParseDigits(_, _)
ParseDigits(s, acc) ==
    IF s = <<>> THEN acc
    ELSE ParseDigits(Tail(s), acc * 10 + DigitValue(Head(s)))

ParseUint(s) ==
    IF s /= <<>> /\ \A i \in 1..Len(s) : \E d \in 1..10 : Digits[d] = s[i]
    THEN [err |-> "", val |-> ParseDigits(s, 0)]
    ELSE [err |-> "invalid syntax", val |-> 0]

\* strconv.FormatUint(id, 10)
RECURSIVE FormatUint(_)
FormatUint(n) ==
    IF n < 10 THEN <<Digits[n + 1]>>
    ELSE FormatUint(n \div 10) \o <<Digits[(n % 10) + 1]>>

\* the orders in which a range over a Go map may visit the set S
Orders(S) ==
    { s \in [1..Cardinality(S) -> S] :
        \A i, j \in 1..Cardinality(S) : i /= j => s[i] /= s[j] }

----------------------------------------------------------------------------
(* The P2P service: listeners and streams *)

\* a local-forward listener: listen = the bound endpoint, target = the peer
LocalListener(proto, bindAddr, peer) ==
    [dir |-> "local", proto |-> proto, listen |-> bindAddr,
     target |-> <<"ipfs", peer>>]

\* a remote-forward listener: listen = this peer, target = the endpoint
RemoteListener(proto, target) ==
    [dir |-> "remote", proto |-> proto, listen |-> <<"ipfs", SelfID>>,
     target |-> target]

\* the registry key of a listener
ListenerKey(l) == <<l.proto, l.listen>>

\* the endpoints bound by the live local-forward listeners
Bound == { l.listen : l \in { k \in alive : k.dir = "local" } }

\* the protocols with a stream handler set by a live remote-forward listener
Handled == { l.proto : l \in { k \in alive : k.dir = "remote" } }

\* P2P.ForwardLocal: bind the endpoint, then add the listener to the registry
ForwardLocalErr(l) ==
    IF ~(Len(l.listen) = 1 /\ l.listen[1] \in NetEndpoints) THEN "BindError"
    ELSE IF l.listen \in Bound THEN "BindError"
    ELSE IF \E k \in Listeners : ListenerKey(k) = ListenerKey(l)
    THEN "DuplicateListener"
    ELSE ""

\* P2P.ForwardRemote: set the stream handler, then add the listener
ForwardRemoteErr(l) ==
    IF l.proto \in Handled THEN "ProtocolAlreadyHandled"
    ELSE IF \E k \in Listeners : ListenerKey(k) = ListenerKey(l)
    THEN "DuplicateListener"
    ELSE ""

\* what a create leaves: its error, or the listener registered and accepting
Created(l, err) ==
    IF err /= ""
    THEN [err |-> err, Listeners |-> Listeners, alive |-> alive]
    ELSE [err |-> "", Listeners |-> Listeners \cup {l}, alive |-> alive \cup {l}]

ForwardLocal(l) == Created(l, ForwardLocalErr(l))

ForwardRemote(l) == Created(l, ForwardRemoteErr(l))

NoFault == [streams |-> {}, listeners |-> {}]

\* Listener.Close on the pair st = [Listeners, alive]: stop accepting, release
\* the resource and remove the listener from the registry; a failure to
\* release the resource is returned after that
ListenerClose(l, st) ==
    IF l \in st.alive
    THEN [Listeners |-> st.Listeners \ {l}, alive |-> st.alive \ {l},
          err |-> IF l \in faulty.listeners THEN "close failed" ELSE ""]
    ELSE [Listeners |-> st.Listeners, alive |-> st.alive,
          err |-> "already closed"]

\* the map m without key k
Without(m, k) == [h \in (DOMAIN m) \ {k} |-> m[h]]

\* Stream.Reset on the pair st = [Streams, open]: close both halves and
\* deregister; deregistering an absent handle is a no-op; a failure of a half
\* is returned after that
StreamReset(id, st) ==
    [Streams |-> Without(st.Streams, id), open |-> st.open \ {id},
     err |-> IF id \in faulty.streams THEN "reset failed" ELSE ""]

\* the stream a session of listener l is registered as; Listener is the
\* listener that spawned it
StreamOf(l) ==
    [Listener |-> l,
     Protocol |-> l.proto,
     OriginAddr |-> IF l.dir = "local" THEN <<"tcp0">> ELSE <<"ipfs", PeerA>>,
     TargetAddr |-> l.target]

----------------------------------------------------------------------------------------------------------------------------------------------
(* Responses *)

\* res.SetError / res.SetOutput: the error text, or the count or list put out
Response(err, count, list) == [err |-> err, count |-> count, list |-> list]

NoResponse == Response("", 0, <<>>)

\* the record of a call: the command, its arguments, the registries before it
Call(cmd, args) ==
    [cmd |-> cmd, args |-> args, Listeners |-> Listeners, alive |-> alive,
     Streams |-> Streams, open |-> open]

NoCall == [cmd |-> "none", args |-> <<>>, Listeners |-> {}, alive |-> {},
           Streams |-> <<>>, open |-> {}]

ErrNotEnabled == "libp2p stream mounting not enabled"
ErrNotOnline == "this command must be run in online mode"
ErrNamespace == "protocol name must be within '/x/' namespace"
ErrNoOptions == "no matching options given"
ErrConflict == "can't combine --all with other matching options"
ErrClosing == "errors when closing streams"
ErrNoID == "no id specified"

\* p2pGetNode
GetNodeErr ==
    IF ~node.mounting THEN ErrNotEnabled
    ELSE IF ~node.online THEN ErrNotOnline
    ELSE ""

\* the namespace test with the override flag left out
ProtoAllowedNoOverride(proto, allowCustom) == HasPrefix(proto, P2PProtoPrefix)

\* the namespace test of forward and listen
ProtoAllowed(proto, allowCustom) ==
    allowCustom \/ HasPrefix(proto, P2PProtoPrefix)

----------------------------------------------------------------------------
(* ipfs p2p forward <protocol> <listen-address> <target-address> *)

ListenTexts == {TxtE1, TxtE2s, TxtPeerA, TxtBad}
PeerTexts == {TxtPeerA, TxtE1}

ForwardArgs ==
    [protoOpt : Protos, listenOpt : ListenTexts, targetOpt : PeerTexts,
     allowCustom : BOOLEAN]

\* the checks made before forwardLocal is called
ForwardEarlyErr(a) ==
    IF GetNodeErr /= "" THEN GetNodeErr
    ELSE IF NewMultiaddr(a.listenOpt).err /= "" THEN NewMultiaddr(a.listenOpt).err
    ELSE IF ParseIPFSAddr(a.targetOpt).err /= "" THEN ParseIPFSAddr(a.targetOpt).err
    ELSE IF ~ProtoAllowed(a.protoOpt, a.allowCustom) THEN ErrNamespace
    ELSE ""

\* the listener forwardLocal asks for
ForwardListener(a) ==
    LocalListener(a.protoOpt, NewMultiaddr(a.listenOpt).val,
                  ParseIPFSAddr(a.targetOpt).id)

\* forwardLocal: record the peer's address, then ForwardLocal; its error is
\* returned
forwardLocal(l) ==
    [peerstore |-> peerstore \cup {l.target[2]}, made |-> ForwardLocal(l)]

p2pForwardCmd(a) ==
    LET r == forwardLocal(ForwardListener(a))
    IN  /\ call' = Call("forward", a)
        /\ UNCHANGED <<node, Streams, open, nextID, run, fatal, tasks>>
        /\ IF ForwardEarlyErr(a) /= ""
           THEN /\ res' = Response(ForwardEarlyErr(a), 0, <<>>)
                /\ UNCHANGED <<peerstore, Listeners, alive>>
           ELSE /\ Cardinality(r.made.Listeners) <= MaxListeners
                /\ peerstore' = r.peerstore
                /\ Listeners' = r.made.Listeners
                /\ alive' = r.made.alive
                /\ res' = Response(r.made.err, 0, <<>>)

----------------------------------------------------------------------------
(* ipfs p2p listen <protocol> <target-address> *)

EndpointTexts == {TxtE1, TxtE2s, TxtBad}

ListenArgs == [protoOpt : Protos, targetOpt : EndpointTexts, allowCustom : BOOLEAN]

\* the checks made before forwardRemote is called
ListenEarlyErr(a) ==
    IF GetNodeErr /= "" THEN GetNodeErr
    ELSE IF NewMultiaddr(a.targetOpt).err /= "" THEN NewMultiaddr(a.targetOpt).err
    ELSE IF ~ProtoAllowed(a.protoOpt, a.allowCustom) THEN ErrNamespace
    ELSE ""

\* the listener forwardRemote asks for
ListenListener(a) == RemoteListener(a.protoOpt, NewMultiaddr(a.targetOpt).val)

\* forwardRemote that drops the error of ForwardRemote
forwardRemoteDropsErr(l) ==
    [err |-> "", Listeners |-> ForwardRemote(l).Listeners,
     alive |-> ForwardRemote(l).alive]

\* forwardRemote: ForwardRemote, whose error is returned
forwardRemote(l) == ForwardRemote(l)

p2pListenCmd(a) ==
    LET r == forwardRemote(ListenListener(a))
    IN  /\ call' = Call("listen", a)
        /\ UNCHANGED <<node, peerstore, Streams, open, nextID, run, fatal, tasks>>
        /\ IF ListenEarlyErr(a) /= ""
           THEN /\ res' = Response(ListenEarlyErr(a), 0, <<>>)
                /\ UNCHANGED <<Listeners, alive>>
           ELSE /\ Cardinality(r.Listeners) <= MaxListeners
                /\ Listeners' = r.Listeners
                /\ alive' = r.alive
                /\ res' = Response(r.err, 0, <<>>)

----------------------------------------------------------------------------
(* ipfs p2p ls *)

\* the listing with the two addresses exchanged
ListenerInfoSwapped(l) ==
    [Protocol |-> l.proto,
     ListenAddress |-> AddrString(l.target),
     TargetAddress |-> AddrString(l.listen)]

ListenerInfo(l) ==
    [Protocol |-> l.proto,
     ListenAddress |-> AddrString(l.listen),
     TargetAddress |-> AddrString(l.target)]

p2pLsCmd ==
    /\ call' = Call("ls", <<>>)
    /\ UNCHANGED <<service, run, fatal, tasks>>
    /\ IF GetNodeErr /= ""
       THEN res' = Response(GetNodeErr, 0, <<>>)
       ELSE \E order \in Orders(Listeners) :
              res' = Response("", 0,
                        [i \in 1..Len(order) |-> ListenerInfo(order[i])])

----------------------------------------------------------------------------
(* ipfs p2p close [--all] [-p protocol] [-l listen-address] [-t target-address] *)

CloseListenTexts == {TxtE1, TxtE2s, TxtSelf, TxtBad}
CloseTargetTexts == {TxtE1, TxtE2s, TxtPeerA, TxtBad}

\* the options of one call: an option that is not given reads as the empty text
CloseArgs ==
    { c \in [closeAll : BOOLEAN,
             p : BOOLEAN, protoOpt : Protos \cup {TxtNone},
             l : BOOLEAN, listenOpt : CloseListenTexts \cup {TxtNone},
             t : BOOLEAN, targetOpt : CloseTargetTexts \cup {TxtNone}] :
        /\ c.p <=> c.protoOpt /= TxtNone
        /\ c.l <=> c.listenOpt /= TxtNone
        /\ c.t <=> c.targetOpt /= TxtNone }

\* the checks of the options without the test for no option at all
CloseOptsErrNoEmptyTest(c) ==
    IF GetNodeErr /= "" THEN GetNodeErr
    ELSE IF NewMultiaddr(c.listenOpt).err /= "" THEN NewMultiaddr(c.listenOpt).err
    ELSE IF NewMultiaddr(c.targetOpt).err /= "" THEN NewMultiaddr(c.targetOpt).err
    ELSE IF c.closeAll /\ (c.p \/ c.l \/ c.t) THEN ErrConflict
    ELSE ""

\* the checks of the options without the test for --all with another option
CloseOptsErrNoConflictTest(c) ==
    IF GetNodeErr /= "" THEN GetNodeErr
    ELSE IF NewMultiaddr(c.listenOpt).err /= "" THEN NewMultiaddr(c.listenOpt).err
    ELSE IF NewMultiaddr(c.targetOpt).err /= "" THEN NewMultiaddr(c.targetOpt).err
    ELSE IF ~(c.closeAll \/ c.p \/ c.l \/ c.t) THEN ErrNoOptions
    ELSE ""

\* the checks of the options, in the order the command makes them
CloseOptsErr(c) ==
    IF GetNodeErr /= "" THEN GetNodeErr
    ELSE IF NewMultiaddr(c.listenOpt).err /= "" THEN NewMultiaddr(c.listenOpt).err
    ELSE IF NewMultiaddr(c.targetOpt).err /= "" THEN NewMultiaddr(c.targetOpt).err
    ELSE IF ~(c.closeAll \/ c.p \/ c.l \/ c.t) THEN ErrNoOptions
    ELSE IF c.closeAll /\ (c.p \/ c.l \/ c.t) THEN ErrConflict
    ELSE ""

\* match with the target address compared against the listen address
MatchWrongField(c, listener) ==
    IF c.closeAll THEN TRUE
    ELSE IF c.p /\ c.protoOpt /= listener.proto THEN FALSE
    ELSE IF c.l /\ NewMultiaddr(c.listenOpt).val /= listener.listen THEN FALSE
    ELSE IF c.t /\ NewMultiaddr(c.targetOpt).val /= listener.listen THEN FALSE
    ELSE TRUE

\* match
Match(c, listener) ==
    IF c.closeAll THEN TRUE
    ELSE IF c.p /\ c.protoOpt /= listener.proto THEN FALSE
    ELSE IF c.l /\ NewMultiaddr(c.listenOpt).val /= listener.listen THEN FALSE
    ELSE IF c.t /\ NewMultiaddr(c.targetOpt).val /= listener.target THEN FALSE
    ELSE TRUE

\* the selection that stops at the first listener that matches
TodoFirstOnly(c) ==
    IF \E l \in Listeners : Match(c, l)
    THEN {CHOOSE l \in Listeners : Match(c, l)}
    ELSE {}

\* the listeners selected under the registry lock
Todo(c) == { l \in Listeners : Match(c, l) }

\* the loop over todo: Close each listener, collecting the errors
RECURSIVE CloseEach(_, _)
CloseEach(todo, st) ==
    IF todo = <<>> THEN st
    ELSE LET r == ListenerClose(Head(todo), st)
         IN  CloseEach(Tail(todo),
                 [Listeners |-> r.Listeners, alive |-> r.alive,
                  errs |-> IF r.err /= "" THEN Append(st.errs, r.err)
                           ELSE st.errs])

\* the response after the loop
CloseResponse(todo, errs) ==
    IF Len(errs) /= 0 THEN Response(ErrClosing, 0, <<>>)
    ELSE Response("", Len(todo), <<>>)

\* close that also resets the streams of the listeners it closes
p2pCloseCmdResetsStreams(c) ==
    /\ call' = Call("close", c)
    /\ UNCHANGED <<node, peerstore, nextID, run, fatal, tasks>>
    /\ IF CloseOptsErr(c) /= ""
       THEN /\ res' = Response(CloseOptsErr(c), 0, <<>>)
            /\ UNCHANGED <<Listeners, alive, Streams, open>>
       ELSE \E todo \in Orders(Todo(c)) :
               LET r == CloseEach(todo, [Listeners |-> Listeners,
                                         alive |-> alive, errs |-> <<>>])
                   kept == { h \in DOMAIN Streams : Streams[h].Listener \notin Todo(c) }
               IN  /\ Listeners' = r.Listeners
                   /\ alive' = r.alive
                   /\ res' = CloseResponse(todo, r.errs)
                   /\ Streams' = [h \in kept |-> Streams[h]]
                   /\ open' = open \cap kept

p2pCloseCmd(c) ==
    /\ call' = Call("close", c)
    /\ UNCHANGED <<node, peerstore, Streams, open, nextID, run, fatal, tasks>>
    /\ IF CloseOptsErr(c) /= ""
       THEN /\ res' = Response(CloseOptsErr(c), 0, <<>>)
            /\ UNCHANGED <<Listeners, alive>>
       ELSE \E todo \in Orders(Todo(c)) :
               LET r == CloseEach(todo, [Listeners |-> Listeners,
                                         alive |-> alive, errs |-> <<>>])
               IN  /\ Listeners' = r.Listeners
                   /\ alive' = r.alive
                   /\ res' = CloseResponse(todo, r.errs)

----------------------------------------------------------------------------
(* Sessions *)

\* registration under the number of streams registered, not the next handle
SessionStartByCount(l, max) ==
    LET n == Cardinality(DOMAIN Streams)
    IN  /\ l \in alive
        /\ nextID < max
        /\ Streams' = [h \in (DOMAIN Streams) \cup {n} |->
                          IF h = n THEN StreamOf(l) ELSE Streams[h]]
        /\ open' = open \cup {n}
        /\ nextID' = nextID + 1
        /\ UNCHANGED <<node, peerstore, Listeners, alive, res, call, run, tasks>>

\* a live listener accepts a connection, both halves are established and the
\* session is registered as a stream under the next handle
SessionStart(l, max) ==
    /\ l \in alive
    /\ nextID < max
    /\ Streams' = [h \in (DOMAIN Streams) \cup {nextID} |->
                      IF h = nextID THEN StreamOf(l) ELSE Streams[h]]
    /\ open' = open \cup {nextID}
    /\ nextID' = nextID + 1
    /\ UNCHANGED <<node, peerstore, Listeners, alive, res, call, run, tasks>>

\* a half of a piping stream reaches end-of-stream or fails: both halves are
\* closed and the stream is deregistered
SessionEnd(id) ==
    /\ id \in open
    /\ open' = open \ {id}
    /\ Streams' = Without(Streams, id)
    /\ UNCHANGED <<node, peerstore, Listeners, alive, nextID, res, call, run,
                   tasks>>

----------------------------------------------------------------------------
(* ipfs p2p stream ls *)

\* the listing with the target address shown as the origin
StreamInfoOriginAsTarget(id) ==
    [HandlerID |-> FormatUint(id),
     Protocol |-> Streams[id].Protocol,
     OriginAddress |-> AddrString(Streams[id].TargetAddr),
     TargetAddress |-> AddrString(Streams[id].TargetAddr)]

StreamInfo(id) ==
    [HandlerID |-> FormatUint(id),
     Protocol |-> Streams[id].Protocol,
     OriginAddress |-> AddrString(Streams[id].OriginAddr),
     TargetAddress |-> AddrString(Streams[id].TargetAddr)]

p2pStreamLsCmd ==
    /\ call' = Call("stream ls", <<>>)
    /\ UNCHANGED <<service, run, fatal, tasks>>
    /\ IF GetNodeErr /= ""
       THEN res' = Response(GetNodeErr, 0, <<>>)
       ELSE \E order \in Orders(DOMAIN Streams) :
              res' = Response("", 0,
                        [i \in 1..Len(order) |-> StreamInfo(order[i])])

----------------------------------------------------------------------------
(* ipfs p2p stream close [--all] [id] *)

IDTexts == { <<"0">>, <<"1">>, <<"0", "1">>, <<"2">>, <<"x">> }

\* the arguments of one call: args holds the id text when one is given
StreamCloseArgs ==
    [closeAll : BOOLEAN, args : {<<>>} \cup { <<t>> : t \in IDTexts }]

\* the checks made before the loop
StreamCloseErr(c) ==
    IF GetNodeErr /= "" THEN GetNodeErr
    ELSE IF c.closeAll THEN ""
    ELSE IF Len(c.args) = 0 THEN ErrNoID
    ELSE ParseUint(c.args[1]).err

\* the command with the returns after its errors left out
ReachesLoopAlways(c) == GetNodeErr = ""

\* whether the command reaches its loop: it returns after an error
ReachesLoop(c) == StreamCloseErr(c) = ""

\* handlerID: zero unless an id was parsed
HandlerID(c) ==
    IF c.closeAll \/ Len(c.args) = 0 THEN 0 ELSE ParseUint(c.args[1]).val

\* the test of the loop with the handle compared the wrong way
SelectedOthers(c, id) == c.closeAll \/ HandlerID(c) /= id

\* whether the loop resets the stream it visits
Selected(c, id) == c.closeAll \/ HandlerID(c) = id

\* the loop over the streams, in the order it visits them
RECURSIVE ResetEach(_, _, _)
ResetEach(c, order, st) ==
    IF order = <<>> THEN st
    ELSE IF Head(order) \notin DOMAIN st.Streams \/ ~Selected(c, Head(order))
    THEN ResetEach(c, Tail(order), st)
    ELSE IF ~c.closeAll THEN StreamReset(Head(order), st)
    ELSE ResetEach(c, Tail(order), StreamReset(Head(order), st))

p2pStreamCloseCmd(c) ==
    /\ call' = Call("stream close", c)
    /\ res' = Response(StreamCloseErr(c), 0, <<>>)
    /\ UNCHANGED <<node, peerstore, Listeners, alive, nextID, run, fatal, tasks>>
    /\ IF ~ReachesLoop(c)
       THEN UNCHANGED <<Streams, open>>
       ELSE \E order \in Orders(DOMAIN Streams) :
               LET r == ResetEach(c, order, [Streams |-> Streams, open |-> open])
               IN  /\ Streams' = r.Streams
                   /\ open' = r.open

----------------------------------------------------------------------------
(* The node under sequential administration: one command at a time, sessions *)
(* starting and ending between the commands                                  *)

NoRun == [active |-> FALSE, c |-> <<>>, visited |-> {}]

\* whether no command is under way and no response is waiting for its caller
Idle == call = NoCall /\ ~run.active /\ ~fatal

\* the close commands of CloseSpec
Closers == 1..MaxClosers

\* a close command that has not been called: pc is its place in Run, todo
\* the listeners it selected, i the index of the next one to close, errs the
\* errors it has collected, closed the listeners its Close calls closed
NoCloser ==
    [pc |-> "idle", c |-> <<>>, todo |-> <<>>, i |-> 1, errs |-> <<>>,
     closed |-> {}, res |-> NoResponse]

\* no ls or stream ls under way: visited holds the keys the range has
\* yielded, added the keys put into the map since the range began, out the
\* entries appended to the output, snaps the contents the registry has had
\* since the command was called
NoEnum ==
    [active |-> FALSE, kind |-> "none", visited |-> {}, added |-> {},
     out |-> <<>>, snaps |-> {}]

\* no fault, and no command running beside another
TasksInit ==
    /\ faulty = NoFault
    /\ closers = [p \in Closers |-> NoCloser]
    /\ lock = 0
    /\ enum = NoEnum
    /\ sessions = <<>>

Init ==
    /\ node \in [mounting : BOOLEAN, online : BOOLEAN]
    /\ peerstore = {}
    /\ Listeners = {}
    /\ alive = {}
    /\ Streams = <<>>
    /\ open = {}
    /\ nextID = 0
    /\ res = NoResponse
    /\ call = NoCall
    /\ run = NoRun
    /\ fatal = FALSE
    /\ TasksInit

Forward == Idle /\ \E a \in ForwardArgs : p2pForwardCmd(a)

Listen == Idle /\ \E a \in ListenArgs : p2pListenCmd(a)

Ls == Idle /\ p2pLsCmd

Close == Idle /\ \E c \in CloseArgs : p2pCloseCmd(c)

StreamLs == Idle /\ p2pStreamLsCmd

StreamClose == Idle /\ \E c \in StreamCloseArgs : p2pStreamCloseCmd(c)

\* the response is handed to the caller and the command ends
Reply ==
    /\ call /= NoCall
    /\ ~run.active
    /\ ~fatal
    /\ res' = NoResponse
    /\ call' = NoCall
    /\ UNCHANGED <<service, run, fatal, tasks>>

Accept == Idle /\ \E l \in alive : SessionStart(l, MaxSessions) /\ UNCHANGED fatal

End == Idle /\ \E id \in open : SessionEnd(id) /\ UNCHANGED fatal

Next ==
    \/ Forward
    \/ Listen
    \/ Ls
    \/ Close
    \/ StreamLs
    \/ StreamClose
    \/ Reply
    \/ Accept
    \/ End

Spec == Init /\ [][Next]_vars

----------------------------------------------------------------------------------------------------------------------------------------------
(* The node with two listeners at work: sessions and the stream commands.   *)
(* It starts where 'forward /x/a /tcp1 /ipfs/QmA' and 'listen /y /tcp2/'    *)
(* with the override flag have left the node.                               *)

WorkingListeners ==
    { LocalListener(<<"/", "x", "/", "a">>, <<"tcp1">>, PeerA),
      RemoteListener(<<"/", "y">>, <<"tcp2">>) }

StreamInit ==
    /\ node = [mounting |-> TRUE, online |-> TRUE]
    /\ peerstore = {PeerA}
    /\ Listeners = WorkingListeners
    /\ alive = WorkingListeners
    /\ Streams = <<>>
    /\ open = {}
    /\ nextID = 0
    /\ res = NoResponse
    /\ call = NoCall
    /\ run = NoRun
    /\ fatal = FALSE
    /\ TasksInit

AcceptMore == Idle /\ \E l \in alive : SessionStart(l, MaxHandle) /\ UNCHANGED fatal

StreamNext ==
    \/ AcceptMore
    \/ End
    \/ StreamLs
    \/ StreamClose
    \/ Ls
    \/ Close
    \/ Reply

StreamSpec == StreamInit /\ [][StreamNext]_vars

----------------------------------------------------------------------------
(* stream close step by step, with sessions ending while its loop runs.     *)
(* The loop ranges over the map of the stream registry without taking the   *)
(* registry's lock; a session that ends deletes from the map on its own     *)
(* goroutine.                                                               *)

\* the command up to its loop
BeginStreamClose(c) ==
    /\ Idle
    /\ call' = Call("stream close", c)
    /\ res' = Response(StreamCloseErr(c), 0, <<>>)
    /\ run' = IF ReachesLoop(c)
              THEN [active |-> TRUE, c |-> c, visited |-> {}]
              ELSE NoRun
    /\ UNCHANGED <<service, fatal, tasks>>

\* one turn of the loop: the range yields an entry it has not yielded yet
VisitStream(id) ==
    /\ run.active
    /\ ~fatal
    /\ id \in (DOMAIN Streams) \ run.visited
    /\ IF Selected(run.c, id)
       THEN LET r == StreamReset(id, [Streams |-> Streams, open |-> open])
            IN  /\ Streams' = r.Streams
                /\ open' = r.open
                /\ run' = IF run.c.closeAll
                          THEN [run EXCEPT !.visited = @ \cup {id}]
                          ELSE NoRun
       ELSE /\ run' = [run EXCEPT !.visited = @ \cup {id}]
            /\ UNCHANGED <<Streams, open>>
    /\ UNCHANGED <<node, peerstore, Listeners, alive, nextID, res, call, fatal,
                   tasks>>

\* the range ends: every entry of the map was yielded
EndLoop ==
    /\ run.active
    /\ ~fatal
    /\ (DOMAIN Streams) \subseteq run.visited
    /\ run' = NoRun
    /\ UNCHANGED <<service, res, call, fatal, tasks>>

\* a session ends while the loop runs: a map write beside the unlocked range,
\* which the Go runtime may catch and end the process for
EndDuringLoop(id) ==
    /\ run.active
    /\ ~fatal
    /\ id \in open
    /\ open' = open \ {id}
    /\ Streams' = Without(Streams, id)
    /\ fatal' \in BOOLEAN
    /\ UNCHANGED <<node, peerstore, Listeners, alive, nextID, res, call, run,
                   tasks>>

RaceNext ==
    \/ AcceptMore
    \/ End
    \/ \E c \in StreamCloseArgs : BeginStreamClose(c)
    \/ \E id \in DOMAIN Streams : VisitStream(id)
    \/ EndLoop
    \/ \E id \in open : EndDuringLoop(id)
    \/ Reply

RaceSpec == StreamInit /\ [][RaceNext]_vars

----------
(* Properties of the listener commands, checked under Spec.  A command is   *)
(* judged in the state it leaves: call holds its arguments and the          *)
(* registries it found, res its response.                                   *)

\* the addresses given to close parse as multiaddrs
CloseAddrsParse(c) ==
    NewMultiaddr(c.listenOpt).err = "" /\ NewMultiaddr(c.targetOpt).err = ""

CloseAllArgs ==
    [closeAll |-> TRUE, p |-> FALSE, protoOpt |-> TxtNone, l |-> FALSE,
     listenOpt |-> TxtNone, t |-> FALSE, targetOpt |-> TxtNone]

CloseNoArgs ==
    [closeAll |-> FALSE, p |-> FALSE, protoOpt |-> TxtNone, l |-> FALSE,
     listenOpt |-> TxtNone, t |-> FALSE, targetOpt |-> TxtNone]

\* the close just run, if it was 'close --all' on a node that serves p2p
ClosedAll == call.cmd = "close" /\ call.args = CloseAllArgs /\ GetNodeErr = ""

\* C1: close --all closes every listener and answers with the number of
\* listeners that were active before it; as long as no listener is created
\* (only forward and listen add to the registry), ls then lists nothing.
C1_CloseAllClosesEveryListener ==
    /\ [](ClosedAll =>
            /\ res.err = ""
            /\ res.count = Cardinality(call.alive)
            /\ alive = {}
            /\ Listeners = {})
    /\ [][Listeners' \subseteq Listeners \/ call'.cmd \in {"forward", "listen"}]_vars
    /\ [](call.cmd = "ls" /\ GetNodeErr = "" /\ call.Listeners = {} =>
            res.err = "" /\ res.list = <<>>)

C1_Witness ==
    /\ ClosedAll
    /\ Cardinality(call.alive) = 3
    /\ res.count = 3
    /\ Listeners = {}

\* the listener's fields equal every field the caller gave
FieldsEqual(c, l) ==
    /\ c.p => l.proto = c.protoOpt
    /\ c.l => AddrString(l.listen) = TrimRight(c.listenOpt)
    /\ c.t => AddrString(l.target) = TrimRight(c.targetOpt)

\* the close just run, if it gave criteria and not --all
ClosedByFields ==
    /\ call.cmd = "close"
    /\ GetNodeErr = ""
    /\ ~call.args.closeAll
    /\ call.args.p \/ call.args.l \/ call.args.t

\* C2: close with criteria closes exactly the listeners whose fields equal
\* every given field, and answers with their number; every listener that
\* differs in a given field stays active and registered.  (No listener's
\* field equals an address that does not parse: the command then fails.)
C2_CloseByFieldsClosesExactlyMatches ==
    ClosedByFields =>
        LET sel == { l \in call.Listeners : FieldsEqual(call.args, l) }
        IN  /\ Listeners = call.Listeners \ sel
            /\ alive = call.alive \ sel
            /\ IF CloseAddrsParse(call.args)
               THEN res.err = "" /\ res.count = Cardinality(sel)
               ELSE res.err /= "" /\ sel = {}

\* two listeners that differ only in protocol, one closed by its protocol
C2_Witness ==
    /\ ClosedByFields
    /\ call.args.p /\ ~call.args.l /\ ~call.args.t
    /\ res.count = 1
    /\ \E k \in call.Listeners \ Listeners, m \in Listeners :
          /\ k.proto = call.args.protoOpt
          /\ m.proto /= k.proto
          /\ m.listen = k.listen
          /\ m.target = k.target
          /\ m \in alive

\* C3: close without --all and without any criterion fails with "no matching
\* options given" and leaves the registry and every listener as they were.
C3_CloseNoOptionsFails ==
    (call.cmd = "close" /\ call.args = CloseNoArgs /\ GetNodeErr = "") =>
        /\ res.err = ErrNoOptions
        /\ Listeners = call.Listeners
        /\ alive = call.alive

C3_Witness ==
    /\ call.cmd = "close"
    /\ call.args = CloseNoArgs
    /\ res.err = ErrNoOptions
    /\ Cardinality(alive) >= 2

\* C4: close --all together with a criterion fails with the conflict error
\* and closes and removes nothing.
C4_CloseAllWithCriterionFails ==
    (/\ call.cmd = "close"
     /\ GetNodeErr = ""
     /\ call.args.closeAll
     /\ call.args.p \/ call.args.l \/ call.args.t) =>
        /\ CloseAddrsParse(call.args) => res.err = ErrConflict
        /\ res.err /= ""
        /\ Listeners = call.Listeners
        /\ alive = call.alive

C4_Witness ==
    /\ call.cmd = "close"
    /\ call.args.closeAll
    /\ call.args.p
    /\ res.err = ErrConflict
    /\ \E l \in alive : l.proto = call.args.protoOpt

\* the addresses given to the create parse
CreateAddrsParse ==
    IF call.cmd = "forward"
    THEN /\ NewMultiaddr(call.args.listenOpt).err = ""
         /\ ParseIPFSAddr(call.args.targetOpt).err = ""
    ELSE NewMultiaddr(call.args.targetOpt).err = ""

\* the create just run on a node that serves p2p
CreateCall == call.cmd \in {"forward", "listen"} /\ GetNodeErr = ""

\* the create just run, if its addresses parse
Creating == CreateCall /\ CreateAddrsParse

\* nothing but the name stands in the way of the create: the endpoint to bind
\* is a free network endpoint, the protocol to handle has no handler
NothingInTheWay ==
    IF call.cmd = "forward"
    THEN /\ TrimRight(call.args.listenOpt) \in { <<"/", e>> : e \in NetEndpoints }
         /\ \A l \in call.alive : AddrString(l.listen) /= TrimRight(call.args.listenOpt)
    ELSE \A l \in call.alive : l.dir = "remote" => l.proto /= call.args.protoOpt

\* C5: a create whose protocol name lacks the "/x/" prefix fails with the
\* namespace error and registers nothing, unless the override flag is set:
\* then the name is not rejected and the create registers its listener.
C5_NamespaceCheck ==
    (CreateCall /\ ~HasPrefix(call.args.protoOpt, P2PProtoPrefix)) =>
        IF call.args.allowCustom
        THEN /\ res.err /= ErrNamespace
             /\ (CreateAddrsParse /\ NothingInTheWay) =>
                  /\ res.err = ""
                  /\ Cardinality(Listeners) = Cardinality(call.Listeners) + 1
                  /\ \E l \in (Listeners \cap alive) \ call.Listeners :
                        l.proto = call.args.protoOpt
        ELSE /\ res.err /= ""
             /\ CreateAddrsParse => res.err = ErrNamespace
             /\ Listeners = call.Listeners
             /\ alive = call.alive

C5_Witness ==
    /\ Creating
    /\ call.cmd = "forward"
    /\ ~HasPrefix(call.args.protoOpt, P2PProtoPrefix)
    /\ ~call.args.allowCustom
    /\ NothingInTheWay
    /\ res.err = ErrNamespace

\* C9: while a remote-forward for protocol P is registered and active, another
\* listen for P fails with ProtocolAlreadyHandled; the first listener stays
\* registered and active, and the registry holds exactly one listener for P.
C9_SecondRemoteForwardFails ==
    (/\ Creating
     /\ call.cmd = "listen"
     /\ call.args.allowCustom \/ HasPrefix(call.args.protoOpt, P2PProtoPrefix)
     /\ \E l \in call.Listeners \cap call.alive :
           l.dir = "remote" /\ l.proto = call.args.protoOpt) =>
        /\ res.err = "ProtocolAlreadyHandled"
        /\ Listeners = call.Listeners
        /\ alive = call.alive
        /\ Cardinality({ l \in Listeners :
              l.dir = "remote" /\ l.proto = call.args.protoOpt }) = 1

\* the second listen names another target than the first
C9_Witness ==
    /\ Creating
    /\ call.cmd = "listen"
    /\ res.err = "ProtocolAlreadyHandled"
    /\ \E l \in Listeners \cap alive :
          /\ l.dir = "remote"
          /\ l.proto = call.args.protoOpt
          /\ AddrString(l.target) /= TrimRight(call.args.targetOpt)

\* the entry ls is to show for a listener, by its direction
DirectionCorrect(e, l) ==
    /\ e.Protocol = l.proto
    /\ IF l.dir = "local"
       THEN /\ e.ListenAddress \in { <<"/", n>> : n \in NetEndpoints }
            /\ e.ListenAddress = AddrString(l.listen)
            /\ e.TargetAddress = <<"/", "ipfs", "/", PeerA>>
       ELSE /\ e.ListenAddress = <<"/", "ipfs", "/", SelfID>>
            /\ e.TargetAddress \in { <<"/", n>> : n \in NetEndpoints }
            /\ e.TargetAddress = AddrString(l.target)

\* C10: ls lists exactly the listeners created and not closed, each once and
\* each with the listen and target addresses of its direction.
C10_LsListsExactlyLiveListeners ==
    /\ Listeners = alive
    /\ (call.cmd = "ls" /\ GetNodeErr = "") =>
          /\ res.err = ""
          /\ Len(res.list) = Cardinality(alive)
          /\ \A l \in alive : \E i \in 1..Len(res.list) : DirectionCorrect(res.list[i], l)
          /\ \A i \in 1..Len(res.list) : \E l \in alive : DirectionCorrect(res.list[i], l)

\* a listing of a local-forward and a remote-forward
C10_Witness ==
    /\ call.cmd = "ls"
    /\ Len(res.list) = 2
    /\ \E l, k \in alive : l.dir = "local" /\ k.dir = "remote"

----------------------------------------------------------------------------
(* Properties of stream close, checked under StreamSpec and RaceSpec *)

\* the stream close just run, if it named a handle that parses
ClosedOne ==
    /\ call.cmd = "stream close"
    /\ ~run.active
    /\ ~call.args.closeAll
    /\ Len(call.args.args) = 1
    /\ ParseUint(call.args.args[1]).err = ""

\* C6: stream close with handle H resets the stream of handle H and no other:
\* every other stream stays open and registered, as it was.
C6_StreamCloseResetsOnlyItsHandle ==
    ClosedOne =>
        LET H == ParseUint(call.args.args[1]).val
        IN  /\ res.err = ""
            /\ H \notin open
            /\ H \notin DOMAIN Streams
            /\ open = call.open \ {H}
            /\ DOMAIN Streams = (DOMAIN call.Streams) \ {H}
            /\ \A h \in DOMAIN Streams : Streams[h] = call.Streams[h]

\* three streams, the middle one closed by the text "01"
C6_Witness ==
    /\ ClosedOne
    /\ call.args.args[1] = <<"0", "1">>
    /\ call.open = {0, 1, 2}
    /\ open = {0, 2}
    /\ DOMAIN Streams = {0, 2}

StreamCloseNoArgs == [closeAll |-> FALSE, args |-> <<>>]

\* C8: stream close with neither a handle nor --all fails and resets nothing;
\* the stream registry is as it was.
C8_StreamCloseNoTargetFails ==
    (call.cmd = "stream close" /\ call.args = StreamCloseNoArgs) =>
        /\ res.err = ErrNoID
        /\ Streams = call.Streams
        /\ open = call.open

C8_Witness ==
    /\ call.cmd = "stream close"
    /\ call.args = StreamCloseNoArgs
    /\ res.err = ErrNoID
    /\ open = {0, 1}

\* the stream close --all just run to its end
ClosedAllStreams ==
    /\ call.cmd = "stream close"
    /\ call.args.closeAll
    /\ ~run.active

\* C7: stream close --all ends every stream that was active when it was
\* called, also when some of them end on their own meanwhile; removing a
\* stream twice is a no-op, and the run never ends in an error or with a
\* registry that lists a closed stream.
C7_ResetAllUnderRace ==
    /\ ~fatal
    /\ DOMAIN Streams = open
    /\ ClosedAllStreams =>
          /\ res.err = ""
          /\ call.open \cap open = {}
          /\ (DOMAIN call.Streams) \cap (DOMAIN Streams) = {}

\* C7, given that the runtime did not end the process
C7_ResetAllUnlessThrown == fatal \/ C7_ResetAllUnderRace

----------------------------------------------------------------------------
(* Properties of the stream registry, checked under StreamSpec *)

\* the entry stream ls is to show for the stream st of handle h
ListedAs(e, h, st) ==
    /\ ParseUint(e.HandlerID).err = ""
    /\ ParseUint(e.HandlerID).val = h
    /\ e.Protocol = st.Protocol
    /\ e.OriginAddress = AddrString(st.OriginAddr)
    /\ e.TargetAddress = AddrString(st.TargetAddr)

\* C11: after any sequence of session starts, natural ends and stream closes
\* the registry holds exactly the streams that were paired and have not
\* closed, and stream ls lists exactly those, each once: no ended or reset
\* stream is listed and no piping stream is missing.
C11_StreamLsListsExactlyOpenStreams ==
    /\ DOMAIN Streams = open
    /\ (call.cmd = "stream ls" /\ GetNodeErr = "") =>
          /\ res.err = ""
          /\ Len(res.list) = Cardinality(open)
          /\ \A h \in open : \E i \in 1..Len(res.list) :
                ListedAs(res.list[i], h, Streams[h])
          /\ \A i \in 1..Len(res.list) : \E h \in open :
                ListedAs(res.list[i], h, Streams[h])

\* a listing of the one stream left of three, by the remote-forward listener
C11_Witness ==
    /\ call.cmd = "stream ls"
    /\ nextID = 3
    /\ open = {1}
    /\ Len(res.list) = 1
    /\ res.list[1].HandlerID = <<"1">>
    /\ res.list[1].OriginAddress = <<"/", "ipfs", "/", PeerA>>

\* C12: handles are handed out in strictly increasing order and never again:
\* every registered handle is below the next handle, the next handle never
\* goes down, and a registration adds exactly the next handle to the registry,
\* whatever was unregistered or reset before and whichever listener registers.
C12_HandlesIncreaseAndAreNotReused ==
    /\ [](\A h \in DOMAIN Streams : h < nextID)
    /\ [][/\ nextID' \in {nextID, nextID + 1}
          /\ (DOMAIN Streams') \subseteq (DOMAIN Streams) \cup {nextID}
          /\ nextID' /= nextID =>
                (DOMAIN Streams') = (DOMAIN Streams) \cup {nextID}]_vars

\* handle 0 is gone, and both listeners have registered a stream after it
C12_Witness ==
    /\ DOMAIN Streams = {1, 2}
    /\ Streams[1].Protocol /= Streams[2].Protocol
    /\ nextID = 3

\* the streams spawned by listeners that have been closed since
Orphans == { h \in DOMAIN Streams : Streams[h].Listener \notin alive }

\* C14: close of a listener resets no stream: the streams its listeners
\* spawned stay open and registered as they were, and stream ls goes on to
\* list them; a stream leaves the registry only when it ends on its own or
\* stream close resets it; and a stream is registered only for a listener
\* that is alive, never for one whose close has completed.
C14_CloseLeavesStreamsAlone ==
    /\ [](call.cmd = "close" => (Streams = call.Streams /\ open = call.open))
    /\ []((call.cmd = "stream ls" /\ GetNodeErr = "") =>
            \A h \in Orphans : \E i \in 1..Len(res.list) :
                ListedAs(res.list[i], h, Streams[h]))
    /\ [][/\ \A h \in (DOMAIN Streams') \ (DOMAIN Streams) :
                Streams'[h].Listener \in alive
          /\ \A h \in (DOMAIN Streams') \cap (DOMAIN Streams) :
                Streams'[h] = Streams[h]
          /\ (DOMAIN Streams) \ (DOMAIN Streams') /= {} =>
                \/ call'.cmd = "stream close"
                \/ /\ call' = call
                   /\ Cardinality((DOMAIN Streams) \ (DOMAIN Streams')) = 1]_vars

\* close --all has closed both listeners, each with a stream still piping
C14_Witness ==
    /\ call.cmd = "close"
    /\ res.count = 2
    /\ alive = {}
    /\ \E h, k \in open :
          /\ Streams[h].Listener.dir = "local"
          /\ Streams[k].Listener.dir = "remote"

\* the stream close just run named a handle that parses and that no stream
\* had
ClosedNoStream ==
    /\ ClosedOne
    /\ GetNodeErr = ""
    /\ ParseUint(call.args.args[1]).val \notin DOMAIN call.Streams

\* the close just run gave criteria that parse and that no listener met
ClosedNoListener ==
    /\ ClosedByFields
    /\ CloseAddrsParse(call.args)
    /\ \A l \in call.Listeners : ~FieldsEqual(call.args, l)

\* both registries are as the command found them
RegistriesUntouched ==
    /\ Listeners = call.Listeners
    /\ alive = call.alive
    /\ Streams = call.Streams
    /\ open = call.open

\* C20: a stream close whose handle no stream has, and a close whose
\* criteria no listener meets, end in an error (NotFoundError) and not in
\* success, and leave both registries as they were.
C20_UnmatchedTargetIsAnError ==
    (ClosedNoStream \/ ClosedNoListener) =>
        (res.err /= "" /\ RegistriesUntouched)

\* what the commands do there: they end in success, close with the count 0,
\* and leave both registries as they were
C20_UnmatchedTargetIsSuccess ==
    (ClosedNoStream \/ ClosedNoListener) =>
        (res = NoResponse /\ RegistriesUntouched)

----------------------------------------------------------------------------
(* The node with two listeners at work and transport failures: a listener    *)
(* whose resource cannot be released, a stream whose half cannot be reset.   *)

\* a live listener or a piping stream starts to fail
Fault ==
    /\ Idle
    /\ Cardinality(faulty.streams) + Cardinality(faulty.listeners) < MaxFaults
    /\ \/ \E l \in alive \ faulty.listeners :
             faulty' = [faulty EXCEPT !.listeners = @ \cup {l}]
       \/ \E h \in open \ faulty.streams :
             faulty' = [faulty EXCEPT !.streams = @ \cup {h}]
    /\ UNCHANGED <<service, res, call, run, fatal, closers, lock, enum, sessions>>

CloseByProtoArgs ==
    [closeAll |-> FALSE, p |-> TRUE, protoOpt |-> <<"/", "y">>, l |-> FALSE,
     listenOpt |-> TxtNone, t |-> FALSE, targetOpt |-> TxtNone]

StreamCloseAllArgs == [closeAll |-> TRUE, args |-> <<>>]

\* close --all, or close -p /y
CloseMany == Idle /\ \E c \in {CloseAllArgs, CloseByProtoArgs} : p2pCloseCmd(c)

\* stream close --all
StreamCloseAll == Idle /\ p2pStreamCloseCmd(StreamCloseAllArgs)

FaultNext ==
    \/ AcceptMore
    \/ End
    \/ Fault
    \/ CloseMany
    \/ StreamCloseAll
    \/ Reply

FaultSpec == StreamInit /\ [][FaultNext]_vars

----------------------------------------------------------------------------
(* Properties of close and stream close under failures, checked under       *)
(* FaultSpec                                                                *)

\* the listeners the close just run had to close
CloseMatched == { l \in call.Listeners : Match(call.args, l) }

\* the close just run, if it got as far as its loop
ClosedSome == call.cmd = "close" /\ CloseOptsErr(call.args) = ""

\* close: every matched listener was attempted, and a failure among them is
\* reported, after the loop, as the aggregate error
C13_CloseToleratesFailures ==
    ClosedSome =>
        /\ CloseMatched \cap Listeners = {}
        /\ CloseMatched \cap alive = {}
        /\ (CloseMatched \cap faulty.listeners /= {}) <=> (res.err = ErrClosing)
        /\ (CloseMatched \cap faulty.listeners = {}) =>
              (res.err = "" /\ res.count = Cardinality(CloseMatched))

\* stream close --all: every stream was attempted, and a failure among them
\* is reported
C13_StreamCloseToleratesFailures ==
    (ClosedAllStreams /\ GetNodeErr = "") =>
        /\ call.open \cap open = {}
        /\ (DOMAIN call.Streams) \cap (DOMAIN Streams) = {}
        /\ (DOMAIN call.Streams) \cap faulty.streams /= {} => res.err /= ""

\* C13: close and stream close --all attempt every matched item also when
\* the close or reset of some item fails, collect the errors and report the
\* aggregate failure after the last attempt.
C13_AllAttemptedAndFailuresReported ==
    C13_CloseToleratesFailures /\ C13_StreamCloseToleratesFailures

\* the attempts alone: a failure on one item keeps no later item from its
\* close or reset
C13_AllAttempted ==
    /\ ClosedSome => CloseMatched \cap (Listeners \cup alive) = {}
    /\ (ClosedAllStreams /\ GetNodeErr = "") =>
          (call.open \cap open = {} /\ DOMAIN Streams = {})

----------------------------------------------------------------------------
(* close step by step, several calls beside one another.  Run selects under *)
(* the lock of the listener registry, unlocks, and then calls Close on each *)
(* selected listener; Close stops the listener, may block while it releases *)
(* the resource, and takes the registry's lock to remove the listener.      *)

\* the variables the steps of close leave alone
besideClose ==
    <<node, peerstore, Streams, open, nextID, res, call, run, fatal, faulty,
      enum, sessions>>

\* the arguments of the close commands of CloseSpec
BesideArgs == {CloseAllArgs, CloseByProtoArgs, CloseNoArgs}

\* the unlock put off to the end of Run, which never comes before the closes
UnlockDeferred(holder) == holder

\* n.P2P.Listeners.Unlock(): the lock is free
Unlock(holder) == 0

\* the error of a Close dropped
CollectErrDropped(errs, err) == errs

\* errs = append(errs, err.Error()) when Close returned an error
CollectErr(errs, err) == IF err /= "" THEN Append(errs, err) ELSE errs

\* the command up to the lock: the options are read and checked
CloseCalled(p, c) ==
    /\ closers[p].pc = "idle"
    /\ closers' = [closers EXCEPT ![p] =
          IF CloseOptsErr(c) /= ""
          THEN [@ EXCEPT !.pc = "done", !.c = c,
                         !.res = Response(CloseOptsErr(c), 0, <<>>)]
          ELSE [@ EXCEPT !.pc = "lock", !.c = c]]
    /\ UNCHANGED <<besideClose, Listeners, alive, lock>>

\* Lock() and the selection loop under the lock
LockAndSelect(p) ==
    /\ closers[p].pc = "lock"
    /\ lock = 0
    /\ lock' = p
    /\ \E todo \in Orders(Todo(closers[p].c)) :
          closers' = [closers EXCEPT ![p] = [@ EXCEPT !.pc = "unlock",
                                                      !.todo = todo]]
    /\ UNCHANGED <<besideClose, Listeners, alive>>

\* Unlock() after the selection loop
Unlocks(p) ==
    /\ closers[p].pc = "unlock"
    /\ lock' = Unlock(lock)
    /\ closers' = [closers EXCEPT ![p] = [@ EXCEPT !.pc = "loop"]]
    /\ UNCHANGED <<besideClose, Listeners, alive>>

\* the start of Listener.Close among the live listeners: a listener that was
\* closed before answers "already closed" at once; a live one stops
\* accepting, and the call goes on to release its resource
ListenerStop(l, live) ==
    IF l \in live
    THEN [alive |-> live \ {l}, returned |-> FALSE, err |-> ""]
    ELSE [alive |-> live, returned |-> TRUE, err |-> "already closed"]

\* l.Close() is called on the next listener of todo
CallClose(p) ==
    LET me == closers[p]
        r == ListenerStop(me.todo[me.i], alive)
    IN  /\ me.pc = "loop"
        /\ me.i <= Len(me.todo)
        /\ alive' = r.alive
        /\ closers' = [closers EXCEPT ![p] =
              IF r.returned
              THEN [@ EXCEPT !.i = @ + 1, !.errs = CollectErr(@, r.err)]
              ELSE [@ EXCEPT !.pc = "closing"]]
        /\ UNCHANGED <<besideClose, Listeners, lock>>

\* Close removes its listener from the registry, under the registry's lock,
\* and returns
CloseReturns(p) ==
    LET me == closers[p]
        l == me.todo[me.i]
    IN  /\ me.pc = "closing"
        /\ lock = 0
        /\ Listeners' = Listeners \ {l}
        /\ closers' = [closers EXCEPT ![p] =
              [@ EXCEPT !.pc = "loop", !.i = @ + 1, !.closed = @ \cup {l},
                        !.errs = CollectErr(@, "")]]
        /\ UNCHANGED <<besideClose, alive, lock>>

\* the response after the loop
CloseDone(p) ==
    LET me == closers[p]
    IN  /\ me.pc = "loop"
        /\ me.i > Len(me.todo)
        /\ closers' = [closers EXCEPT ![p] =
              [@ EXCEPT !.pc = "done", !.res = CloseResponse(me.todo, me.errs)]]
        /\ UNCHANGED <<besideClose, Listeners, alive, lock>>

CloseNext ==
    \/ \E p \in Closers, c \in BesideArgs : CloseCalled(p, c)
    \/ \E p \in Closers : LockAndSelect(p)
    \/ \E p \in Closers : Unlocks(p)
    \/ \E p \in Closers : CallClose(p)
    \/ \E p \in Closers : CloseReturns(p)
    \/ \E p \in Closers : CloseDone(p)

CloseSpec == StreamInit /\ [][CloseNext]_vars

----------------------------------------------------------------------------
(* Properties of close commands that run beside one another, checked under  *)
(* CloseSpec                                                                *)

\* the listeners close command p selected
TodoOf(p) == { closers[p].todo[k] : k \in 1..Len(closers[p].todo) }

\* close command p has run its loop to the end
LoopDone(p) == closers[p].pc = "done" /\ CloseOptsErr(closers[p].c) = ""

\* the listener whose Close, called by p, is under way
Closing(p, l) ==
    /\ closers[p].pc = "closing"
    /\ closers[p].todo[closers[p].i] = l

\* C15: when close commands that selected the same listener run beside one
\* another, exactly one Close of that listener succeeds and removes it, and
\* every other Close of it answers "already closed", which its command
\* reports; a live listener is never removed, a closed one is listed only
\* while its Close is under way, and a listener no command selected stays
\* alive and registered.
C15_ConcurrentCloseClosesOnce ==
    /\ alive \subseteq Listeners
    /\ \A l \in Listeners \ alive : \E p \in Closers : Closing(p, l)
    /\ \A p, q \in Closers :
          p /= q => closers[p].closed \cap closers[q].closed = {}
    /\ WorkingListeners \ Listeners = UNION { closers[p].closed : p \in Closers }
    /\ \A l \in WorkingListeners :
          (\A p \in Closers : l \notin TodoOf(p)) => l \in alive
    /\ \A p \in Closers : LoopDone(p) =>
          /\ TodoOf(p) \cap alive = {}
          /\ closers[p].closed \subseteq TodoOf(p)
          /\ Len(closers[p].errs) = Cardinality(TodoOf(p) \ closers[p].closed)
          /\ \A k \in 1..Len(closers[p].errs) :
                closers[p].errs[k] = "already closed"
          /\ IF closers[p].closed = TodoOf(p)
             THEN closers[p].res = Response("", Len(closers[p].todo), <<>>)
             ELSE closers[p].res = Response(ErrClosing, 0, <<>>)

\* two 'close -p /y' have ended: one closed the listener, the other was
\* answered "already closed", and the local-forward listener is untouched
C15_Witness ==
    /\ \A p \in {1, 2} : LoopDone(p) /\ closers[p].c = CloseByProtoArgs
    /\ Cardinality(closers[1].closed) = 1
    /\ closers[1].res.count = 1
    /\ closers[2].closed = {}
    /\ closers[2].errs = <<"already closed">>
    /\ closers[2].res.err = ErrClosing
    /\ Cardinality(alive) = 1
    /\ alive = Listeners

\* close command p can take its next step
CanStep(p) ==
    \/ closers[p].pc \in {"unlock", "loop"}
    \/ closers[p].pc \in {"lock", "closing"} /\ lock = 0

\* C17: the lock of the listener registry is held for the selection only:
\* no command holds it while it calls Close or while a Close it called is
\* blocked, so whoever needs the lock (another command's selection, a
\* Close's removal from the registry) gets it after one step of its holder,
\* and some command can always go on: no deadlock.
C17_LockNotHeldDuringClose ==
    /\ lock \in {0} \cup Closers
    /\ \A p \in Closers : closers[p].pc \in {"loop", "closing", "done"} => lock /= p
    /\ lock /= 0 => closers[lock].pc = "unlock"
    /\ (\E p \in Closers : closers[p].pc \notin {"idle", "done"}) =>
          \E p \in Closers : CanStep(p)

\* while a Close called by command 1 is blocked, command 2 has selected,
\* closed a listener and ended
C17_Witness ==
    /\ closers[1].pc = "closing"
    /\ closers[2].pc = "done"
    /\ closers[2].closed /= {}
    /\ lock = 0

----------------------------------------------------------------------------
(* ls and stream ls step by step, with the registries changing while their  *)
(* loops run.  Both loops range over the map of a registry without taking   *)
(* the registry's lock; a session that starts or ends and a listener that   *)
(* is closed write to the map from another goroutine.                       *)

\* the variables the steps of ls and stream ls leave alone
besideEnum == <<node, peerstore, nextID, run, faulty, closers, lock, sessions>>

\* ls or stream ls up to its loop
BeginEnum(kind, keys) ==
    /\ Idle
    /\ call' = Call(kind, <<>>)
    /\ enum' = [active |-> TRUE, kind |-> kind, visited |-> {}, added |-> {},
                 out |-> <<>>, snaps |-> {keys}]
    /\ UNCHANGED <<service, res, run, fatal, faulty, closers, lock, sessions>>

BeginLs == BeginEnum("ls", Listeners)

BeginStreamLs == BeginEnum("stream ls", DOMAIN Streams)

\* one turn of the loop of ls: an entry the range has not yielded yet
YieldListener(l) ==
    /\ enum.active
    /\ enum.kind = "ls"
    /\ ~fatal
    /\ l \in Listeners \ enum.visited
    /\ enum' = [enum EXCEPT !.visited = @ \cup {l},
                             !.out = Append(@, ListenerInfo(l))]
    /\ UNCHANGED <<besideEnum, Listeners, alive, Streams, open, res, call, fatal>>

\* one turn of the loop of stream ls
YieldStream(id) ==
    /\ enum.active
    /\ enum.kind = "stream ls"
    /\ ~fatal
    /\ id \in (DOMAIN Streams) \ enum.visited
    /\ enum' = [enum EXCEPT !.visited = @ \cup {id},
                             !.out = Append(@, StreamInfo(id))]
    /\ UNCHANGED <<besideEnum, Listeners, alive, Streams, open, res, call, fatal>>

\* the range ends and the output is set: every entry was yielded, but for
\* entries put into the map since the range began, which it may leave out
EndEnum ==
    /\ enum.active
    /\ ~fatal
    /\ (IF enum.kind = "ls" THEN Listeners ELSE DOMAIN Streams) \ enum.added
          \subseteq enum.visited
    /\ res' = Response("", 0, enum.out)
    /\ enum' = [enum EXCEPT !.active = FALSE]
    /\ UNCHANGED <<service, call, run, fatal, faulty, closers, lock, sessions>>

\* a session starts while the loop of stream ls runs: a map write beside the
\* unlocked range, which the Go runtime may catch and end the process for
AcceptDuringEnum(l) ==
    /\ enum.active
    /\ enum.kind = "stream ls"
    /\ ~fatal
    /\ l \in alive
    /\ nextID < MaxHandle
    /\ Streams' = [h \in (DOMAIN Streams) \cup {nextID} |->
                      IF h = nextID THEN StreamOf(l) ELSE Streams[h]]
    /\ open' = open \cup {nextID}
    /\ nextID' = nextID + 1
    /\ enum' = [enum EXCEPT !.added = @ \cup {nextID},
                             !.snaps = @ \cup {(DOMAIN Streams) \cup {nextID}}]
    /\ fatal' \in BOOLEAN
    /\ UNCHANGED <<node, peerstore, Listeners, alive, res, call, run, faulty,
                   closers, lock, sessions>>

\* a session ends while the loop of stream ls runs
EndDuringEnum(id) ==
    /\ enum.active
    /\ enum.kind = "stream ls"
    /\ ~fatal
    /\ id \in open
    /\ open' = open \ {id}
    /\ Streams' = Without(Streams, id)
    /\ enum' = [enum EXCEPT !.snaps = @ \cup {(DOMAIN Streams) \ {id}}]
    /\ fatal' \in BOOLEAN
    /\ UNCHANGED <<besideEnum, Listeners, alive, res, call>>

\* a listener is closed, by another command, while the loop of ls runs
CloseDuringEnum(l) ==
    LET r == ListenerClose(l, [Listeners |-> Listeners, alive |-> alive])
    IN  /\ enum.active
        /\ enum.kind = "ls"
        /\ ~fatal
        /\ l \in alive
        /\ Listeners' = r.Listeners
        /\ alive' = r.alive
        /\ enum' = [enum EXCEPT !.snaps = @ \cup {r.Listeners}]
        /\ fatal' \in BOOLEAN
        /\ UNCHANGED <<besideEnum, Streams, open, res, call>>

\* the response of ls, stream ls or stream close is handed to the caller
EnumReply ==
    /\ call /= NoCall
    /\ ~enum.active
    /\ ~run.active
    /\ ~fatal
    /\ res' = NoResponse
    /\ call' = NoCall
    /\ enum' = NoEnum
    /\ UNCHANGED <<service, run, fatal, faulty, closers, lock, sessions>>

EnumNext ==
    \/ AcceptMore
    \/ End
    \/ BeginLs
    \/ BeginStreamLs
    \/ \E l \in Listeners : YieldListener(l)
    \/ \E id \in DOMAIN Streams : YieldStream(id)
    \/ EndEnum
    \/ \E l \in alive : AcceptDuringEnum(l)
    \/ \E id \in open : EndDuringEnum(id)
    \/ \E l \in alive : CloseDuringEnum(l)
    \/ \E c \in StreamCloseArgs : BeginStreamClose(c)
    \/ \E id \in DOMAIN Streams : VisitStream(id)
    \/ EndLoop
    \/ \E id \in open : EndDuringLoop(id)
    \/ EnumReply

EnumSpec == StreamInit /\ [][EnumNext]_vars

\* the ls or stream ls just run to its end
Enumerated == call.cmd \in {"ls", "stream ls"} /\ ~enum.active /\ enum.kind /= "none"

\* C16: ls, stream ls and the loop of stream close read their registry as it
\* is at one instant: while a loop reads a registry nobody else changes that
\* registry, and what ls or stream ls puts out is, entry for entry, what
\* the registry held at one instant of the call.
C16_EnumerationIsASnapshot ==
    /\ [][(enum.active /\ enum.kind = "ls") => Listeners' = Listeners]_vars
    /\ [][(enum.active /\ enum.kind = "stream ls") => Streams' = Streams]_vars
    /\ [][(run.active /\ run' = run) => Streams' = Streams]_vars
    /\ [](~fatal)
    /\ [](Enumerated =>
            /\ res.err = ""
            /\ Len(res.list) = Cardinality(enum.visited)
            /\ enum.visited \in enum.snaps)

\* C16 without the demand that nobody writes while a loop reads, and given
\* that the runtime did not end the process: what is put out
C16_OutputIsASnapshot ==
    Enumerated => (fatal \/ enum.visited \in enum.snaps)

----------------------------------------------------------------------------
(* Sessions followed one by one: accepted, paired and registered, piping,   *)
(* closed by an end-of-stream, by a transport failure or by the Reset that  *)
(* stream close calls.  The loop of stream close holds the stream its range *)
(* yielded until it calls Reset, and the stream may close in between.       *)

\* the variables the steps of a session leave alone
besideSession ==
    <<node, peerstore, Listeners, alive, res, call, run, faulty, closers, lock,
      enum>>

\* a connection just accepted by listener l: the accepted half is open, the
\* other half is yet to be opened or dialed
NewSession(l) ==
    [listener |-> l, state |-> "Pairing", accepted |-> "open",
     dialed |-> "none", handle |-> 0, registered |-> FALSE, held |-> FALSE,
     cause |-> "none", resets |-> 0, deregs |-> 0]

\* entering Closed without the guard against a second closure
EnterClosedUnguarded(ses, cause, registry) ==
    [ses EXCEPT !.state = "Closed",
                !.accepted = "closed",
                !.dialed = IF @ = "open" THEN "closed" ELSE @,
                !.cause = cause,
                !.deregs = @ + (IF ses.registered THEN 1 ELSE 0)]

\* entering Closed: both halves are closed and the stream is deregistered,
\* once; a session that is closed already stays as it is
EnterClosed(ses, cause, registry) ==
    IF ses.state = "Closed" THEN ses
    ELSE [ses EXCEPT !.state = "Closed",
                     !.accepted = "closed",
                     !.dialed = IF @ = "open" THEN "closed" ELSE @,
                     !.cause = cause,
                     !.deregs = @ + (IF ses.registered /\ ses.handle \in registry
                                     THEN 1 ELSE 0)]

\* a live listener accepts a connection
SessionAccept(l) ==
    /\ ~fatal
    /\ l \in alive
    /\ Len(sessions) < MaxPairings
    /\ sessions' = Append(sessions, NewSession(l))
    /\ UNCHANGED <<besideSession, Streams, open, nextID, fatal>>

\* the other half is established: the session pipes and is registered as a
\* stream under the next handle
SessionPairs(sid) ==
    /\ ~fatal
    /\ sessions[sid].state = "Pairing"
    /\ Streams' = [h \in (DOMAIN Streams) \cup {nextID} |->
                      IF h = nextID THEN StreamOf(sessions[sid].listener)
                      ELSE Streams[h]]
    /\ open' = open \cup {nextID}
    /\ nextID' = nextID + 1
    /\ sessions' = [sessions EXCEPT ![sid] =
          [@ EXCEPT !.state = "Piping", !.dialed = "open", !.handle = nextID,
                    !.registered = TRUE]]
    /\ UNCHANGED <<besideSession, fatal>>

\* a failure to pair that also stops the listener
SessionPairFailsStopsListener(sid) ==
    /\ ~fatal
    /\ sessions[sid].state = "Pairing"
    /\ sessions' = [sessions EXCEPT ![sid] =
          EnterClosed(@, "transport", DOMAIN Streams)]
    /\ alive' = alive \ {sessions[sid].listener}
    /\ UNCHANGED <<node, peerstore, Listeners, res, call, run, faulty, closers,
                   lock, enum, Streams, open, nextID, fatal>>

\* the other half cannot be established (open-stream or dial failure): the
\* accepted half is closed, the session is never registered
SessionPairFails(sid) ==
    /\ ~fatal
    /\ sessions[sid].state = "Pairing"
    /\ sessions' = [sessions EXCEPT ![sid] =
          EnterClosed(@, "transport", DOMAIN Streams)]
    /\ UNCHANGED <<besideSession, Streams, open, nextID, fatal>>

\* a half of a piping session reaches end-of-stream ("end") or fails
\* ("transport"); when the range of stream close is under way this is a map
\* write beside it, which the Go runtime may end the process for
SessionCloses(sid, cause) ==
    /\ ~fatal
    /\ sessions[sid].state = "Piping"
    /\ sessions' = [sessions EXCEPT ![sid] = EnterClosed(@, cause, DOMAIN Streams)]
    /\ Streams' = Without(Streams, sessions[sid].handle)
    /\ open' = open \ {sessions[sid].handle}
    /\ IF \E k \in DOMAIN sessions : sessions[k].held
       THEN fatal' \in BOOLEAN
       ELSE fatal' = fatal
    /\ UNCHANGED <<besideSession, nextID>>

\* the range of 'stream close <handle>' yields the stream of that handle
AdminPick(sid) ==
    /\ ~fatal
    /\ sessions[sid].state = "Piping"
    /\ \A k \in DOMAIN sessions : ~sessions[k].held
    /\ sessions' = [sessions EXCEPT ![sid] = [@ EXCEPT !.held = TRUE]]
    /\ UNCHANGED <<besideSession, Streams, open, nextID, fatal>>

\* stream.Reset() is called on the stream the range yielded
AdminReset(sid) ==
    /\ ~fatal
    /\ sessions[sid].held
    /\ sessions' = [sessions EXCEPT ![sid] =
          [EnterClosed(@, "reset", DOMAIN Streams)
             EXCEPT !.held = FALSE, !.resets = @ + 1]]
    /\ Streams' = Without(Streams, sessions[sid].handle)
    /\ open' = open \ {sessions[sid].handle}
    /\ UNCHANGED <<besideSession, nextID, fatal>>

SessionNext ==
    \/ \E l \in alive : SessionAccept(l)
    \/ \E sid \in DOMAIN sessions : SessionPairs(sid)
    \/ \E sid \in DOMAIN sessions : SessionPairFails(sid)
    \/ \E sid \in DOMAIN sessions, cause \in {"end", "transport"} :
          SessionCloses(sid, cause)
    \/ \E sid \in DOMAIN sessions : AdminPick(sid)
    \/ \E sid \in DOMAIN sessions : AdminReset(sid)

SessionSpec == StreamInit /\ [][SessionNext]_vars

----------------------------------------------------------------------------
(* Properties of sessions, checked under SessionSpec *)

\* the moves of a session: forward only, and to Piping from Pairing alone (a
\* session whose pairing fails is closed without ever piping)
SessionMoves ==
    { <<"Pairing", "Piping">>, <<"Piping", "Closed">>, <<"Pairing", "Closed">> }

\* what holds of a session in each state
SessionWellFormed(ses) ==
    /\ ses.state = "Pairing" =>
          /\ ~ses.registered
          /\ ses.accepted = "open" /\ ses.dialed = "none"
          /\ ses.deregs = 0
    /\ ses.state = "Piping" =>
          /\ ses.registered
          /\ ses.handle \in DOMAIN Streams
          /\ ses.accepted = "open" /\ ses.dialed = "open"
          /\ ses.deregs = 0
    /\ ses.state = "Closed" =>
          /\ ses.accepted = "closed" /\ ses.dialed /= "open"
          /\ ses.registered => ses.handle \notin DOMAIN Streams
          /\ ses.deregs = (IF ses.registered THEN 1 ELSE 0)
          /\ ses.registered <=> ses.dialed = "closed"

\* C18: a session goes from Pairing to Piping to Closed and never back; it
\* is in the stream registry exactly while it pipes, that is from the moment
\* both halves are established; and entering Closed, by an end-of-stream or
\* a failure of a half or by Reset, closes both halves and deregisters the
\* stream once and only once, also when Reset is called on a stream that
\* has closed on its own in the meantime.
C18_SessionStateMachine ==
    /\ [](\A sid \in DOMAIN sessions : SessionWellFormed(sessions[sid]))
    /\ [](DOMAIN Streams =
            { sessions[sid].handle :
                sid \in { k \in DOMAIN sessions : sessions[k].state = "Piping" } })
    /\ [][\A sid \in DOMAIN sessions :
            /\ sessions'[sid].state /= sessions[sid].state =>
                  <<sessions[sid].state, sessions'[sid].state>> \in SessionMoves
            /\ sessions'[sid].deregs \in {sessions[sid].deregs,
                                          sessions[sid].deregs + 1}
            /\ sessions[sid].registered =>
                  /\ sessions'[sid].registered
                  /\ sessions'[sid].handle = sessions[sid].handle]_vars

\* stream close took hold of a piping stream, the stream ended on its own,
\* and then Reset was called on it
C18_Witness ==
    \E sid \in DOMAIN sessions :
        /\ sessions[sid].state = "Closed"
        /\ sessions[sid].cause = "end"
        /\ sessions[sid].resets = 1
        /\ sessions[sid].deregs = 1
        /\ ~sessions[sid].held

\* session sid is closed by a transport failure in this step
FailsNow(sid) ==
    /\ sessions[sid].state /= "Closed"
    /\ sessions'[sid].state = "Closed"
    /\ sessions'[sid].cause = "transport"

\* C19: a transport failure of a session, while it is paired or while it
\* pipes, closes that session alone: its accepted half is closed and it is
\* not in the registry, its listener stays registered and alive and can
\* accept again, and every other session and stream is as it was.
C19_TransportFailureIsContained ==
    /\ [](\A sid \in DOMAIN sessions : sessions[sid].cause = "transport" =>
            /\ sessions[sid].accepted = "closed"
            /\ sessions[sid].listener \in alive \cap Listeners)
    /\ [][\A sid \in DOMAIN sessions : FailsNow(sid) =>
            /\ Listeners' = Listeners
            /\ alive' = alive
            /\ sessions[sid].listener \in alive'
            /\ \A k \in (DOMAIN sessions') \ {sid} :
                  k \in DOMAIN sessions /\ sessions'[k] = sessions[k]
            /\ sessions'[sid].accepted = "closed"
            /\ Streams' = (IF sessions[sid].registered
                           THEN Without(Streams, sessions[sid].handle)
                           ELSE Streams)
            /\ \A k \in DOMAIN sessions :
                  (k /= sid /\ sessions[k].state = "Piping") =>
                      /\ sessions[k].handle \in DOMAIN Streams'
                      /\ sessions[k].handle \in open']_vars

\* the first connection of the local-forward listener was paired and failed
\* while piping; the listener's second connection pipes
C19_Witness ==
    /\ Len(sessions) = 2
    /\ sessions[1].listener.dir = "local"
    /\ sessions[2].listener = sessions[1].listener
    /\ sessions[1].cause = "transport" /\ sessions[1].registered
    /\ sessions[2].state = "Piping" /\ sessions[2].handle = 1

====
